---- MODULE Spec2Model ----
(***************************************************************************)
(* A model of h3-raster's RasterConverter (src/h3-raster/src/             *)
(* rasterconverter.rs): the convert_tiles pipeline (reader, worker pool,  *)
(* aggregator, three bounded crossbeam channels, the crossbeam scope) and *)
(* the pixel region grower grow_region_starting_with_index.               *)
(***************************************************************************)
EXTENDS Integers, Sequences, FiniteSets, TLC

(***************************************************************************)
(* Bounds of the model.                                                    *)
(***************************************************************************)
MaxThreads == 2
MaxTiles == 4
\* capacity of the progress sink's channel
ProgressCap == 1
\* most tiles of the runs checked for completion
LiveTiles == 3
\* largest tile and most occupied positions given to the region grower
MaxWidth == 3
MaxHeight == 3
MaxOccupied == 3
\* RasterConverter::new: most entries of `inputs`
MaxInputs == 2
\* the choice of the algorithm: largest area of a tile's bounds and of a cell
MaxArea == 12
MaxHexArea == 2
\* the tile converters: most pixels of the raster that hold a value
ConvOccupied == 2

VARIABLES
    \* ---- convert_tiles: arguments
    num_threads,        \* num_threads: u32
    tiles_total,        \* tiles.len(); the tiles are 1..tiles_total
    compact,            \* compact: bool
    has_progress,       \* progress_sender.is_some()
    \* ---- convert_tiles: the reader (the scope's closure, on the calling thread)
    reader_pc,
    next_tile,          \* position of the `for tile in tiles.iter()` loop
    \* ---- the jobs channel (send_subset, recv_subset)
    jobs,               \* queued ConversionSubsets, as tile numbers
    send_subset_alive,  \* the reader's Sender is not dropped yet
    \* ---- the workers
    worker_pc,
    worker_subset,      \* the subset a worker holds (0: none)
    worker_result,      \* the partial result a worker holds
    \* ---- the results channel (send_result, recv_result)
    results,
    \* ---- the aggregator
    agg_pc,
    grouped_indexes,    \* the aggregator's GroupedH3Indexes
    tiles_done,
    \* ---- the final channel (send_final_result, recv_final_result)
    final,
    recv_final_alive,
    \* ---- the progress sink and its consumer
    progress,
    progress_recv_alive,
    \* ---- what convert_tiles gives its caller
    outcome,
    returned,
    \* ---- history of the run (observers, no effect on the program)
    recv_count, sent_count, merged_count,
    agg_log, progress_log, final_sent, read_failed,
    \* ---- grow_region_starting_with_index: one call
    g_pc, g_size, g_map, g_start, g_result,
    g_enqueued,         \* history: the <<popped, pushed>> positions of the call
    \* ---- RasterConverter::new: one call
    n_pc,
    n_count,            \* dataset.count(): isize
    n_inputs,           \* the source_band: u8 of every ClassifiedBand
    n_h3_resolution,    \* h3_resolution: u8
    n_projection,       \* what dataset.projection() holds
    n_geotransform,     \* what dataset.geo_transform() gives
    n_result,
    \* ---- a worker's choice of the algorithm for one subset
    s_pc,
    s_size,             \* subset.tile.size
    s_area,             \* area_rect(&tile_bounds)
    s_hex_area,         \* h3::hex_area_at_resolution(h3_resolution, M2)
    s_mode,
    \* ---- the tile converters: every tile of one raster, in both modes
    c_pc,
    c_shape,            \* raster size, tile size, pixel size
    c_raster,           \* the classified values of every pixel, all bands
    c_compact,          \* compact: bool
    c_tile,             \* the tile being converted
    c_attributes_by_pos,\* cluster mode: attributes_by_pos
    c_locals,           \* cluster mode: indexes_to_add and the history
    c_sweep,            \* what sweep mode returned, per tile
    c_cluster,          \* what cluster mode returned, per tile
    c_merged,           \* the aggregator's result for either mode
    \* ---- pixel_to_array_position and array_position_to_pixel, one after
    \* ---- the other
    p_pc,
    p_size,             \* tile_size
    p_pixel,            \* tile_pixel = (column, row)
    p_pos,              \* array_pos
    p_pixel_back,       \* array_position_to_pixel(pixel_to_array_position(p_pixel))
    p_pos_back          \* pixel_to_array_position(array_position_to_pixel(p_pos))

pipe_vars == <<num_threads, tiles_total, compact, has_progress, reader_pc,
               next_tile, jobs, send_subset_alive, worker_pc, worker_subset,
               worker_result, results, agg_pc, grouped_indexes, tiles_done,
               final, recv_final_alive, progress, progress_recv_alive,
               outcome, returned, recv_count, sent_count, merged_count,
               agg_log, progress_log, final_sent, read_failed>>

grow_vars == <<g_pc, g_size, g_map, g_start, g_result, g_enqueued>>

new_vars == <<n_pc, n_count, n_inputs, n_h3_resolution, n_projection,
              n_geotransform, n_result>>

select_vars == <<s_pc, s_size, s_area, s_hex_area, s_mode>>

conv_vars == <<c_pc, c_shape, c_raster, c_compact, c_tile,
               c_attributes_by_pos, c_locals, c_sweep, c_cluster, c_merged>>

pos_vars == <<p_pc, p_size, p_pixel, p_pos, p_pixel_back, p_pos_back>>

\* the state of the calls of the pure functions
fn_vars == <<grow_vars, new_vars, select_vars, conv_vars, pos_vars>>

vars == <<pipe_vars, fn_vars>>

(***************************************************************************)
(* H3 cells and the H3IndexStack.  A cell is a positive integer; the       *)
(* children of cell p are 7p+1 .. 7p+7, so cells 1..7 are of resolution 0. *)
(***************************************************************************)
Range(s) == {s[i] : i \in 1..Len(s)}

Children(p) == {7 * p + i : i \in 1..7}

RECURSIVE CompactSet(_)
CompactSet(S) ==
    LET full == {c \in S : Children((c - 1) \div 7) \subseteq S /\ c > 7}
    IN  IF full = {} THEN S
        ELSE LET c == CHOOSE x \in full : \A y \in full : x <= y
                 p == (c - 1) \div 7
             IN  CompactSet((S \ Children(p)) \cup {p})

RECURSIVE SortedSeq(_)
SortedSeq(S) ==
    IF S = {} THEN <<>>
    ELSE LET m == CHOOSE x \in S : \A y \in S : x <= y
         IN  <<m>> \o SortedSeq(S \ {m})

\* the elements of S in some order (the order a HashMap iterates in)
RECURSIVE SeqOfSet(_)
SeqOfSet(S) ==
    IF S = {} THEN <<>>
    ELSE LET x == CHOOSE y \in S : TRUE
         IN  <<x>> \o SeqOfSet(S \ {x})

\* H3IndexStack::compact
StackCompact(stack) == SortedSeq(CompactSet(Range(stack)))

\* H3IndexStack::append(&mut other, compact)
StackAppend(stack, other, do_compact) ==
    IF do_compact THEN StackCompact(stack \o other) ELSE stack \o other

\* H3IndexStack::append_to_resolution(resolution, h3indexes, compact)
StackAppendToResolution(stack, h3indexes, do_compact) ==
    IF do_compact THEN StackCompact(stack \o h3indexes) ELSE stack \o h3indexes

(***************************************************************************)
(* The tile converter as the pipeline sees it: the cells a worker finds    *)
(* for tile t on the fixed raster, by attribute vector.  Tiles 1 and 2     *)
(* share the key <<1>> and hold between them the seven children of cell 1. *)
(***************************************************************************)
TileCells(t) ==
    CASE t = 1 -> (<<1>> :> <<8, 9, 10, 11>>)
      [] t = 2 -> (<<1>> :> <<12, 13, 14>>) @@ (<<2>> :> <<15>>)
      [] OTHER -> (<<2>> :> <<13 + t>>)

\* convert_subset_by_...(tile_bounds, subset, thread_compact): the cells of
\* each key go into a new stack by append_to_resolution(.., compact)
ConvertSubset(t, do_compact) ==
    [k \in DOMAIN TileCells(t) |->
        StackAppendToResolution(<<>>, TileCells(t)[k], do_compact)]

\* mutant: the entry of a key is replaced by the partial result's stack
MergeResult_Overwrite(global, gi) ==
    [k \in DOMAIN global \cup DOMAIN gi |->
        IF k \in DOMAIN gi THEN gi[k] ELSE global[k]]

\* mutant: every merge compacts, append(&mut compacted_stack, true)
MergeResult_Compacting(global, gi) ==
    [k \in DOMAIN global \cup DOMAIN gi |->
        IF k \in DOMAIN gi
        THEN StackAppend(IF k \in DOMAIN global THEN global[k] ELSE <<>>,
                         gi[k], TRUE)
        ELSE global[k]]

\* the aggregator's merge of one partial result: entry(attributes)
\* .or_insert_with(H3IndexStack::new).append(&mut compacted_stack, false)
MergeResult(global, gi) ==
    [k \in DOMAIN global \cup DOMAIN gi |->
        IF k \in DOMAIN gi
        THEN StackAppend(IF k \in DOMAIN global THEN global[k] ELSE <<>>,
                         gi[k], FALSE)
        ELSE global[k]]

\* mutant: the final pass compacts whatever the flag says
FinalizeResult_Always(global, do_compact) ==
    [k \in DOMAIN global |-> StackCompact(global[k])]

\* the aggregator's final pass: `if compact { ci.compact() }` on every stack
FinalizeResult(global, do_compact) ==
    IF do_compact THEN [k \in DOMAIN global |-> StackCompact(global[k])]
    ELSE global

Workers == 1..num_threads
Tiles == 1..tiles_total
Terminated == {"exit", "panicked"}

\* the threads that still own a clone of recv_subset and of send_result
LiveWorkers == {w \in Workers : worker_pc[w] \notin Terminated}
\* the aggregator owns recv_result and send_final_result until it ends
AggAlive == agg_pc \notin Terminated

params == <<num_threads, tiles_total, compact, has_progress>>
reader_v == <<reader_pc, next_tile>>
jobs_v == <<jobs, send_subset_alive>>
worker_v == <<worker_pc, worker_subset, worker_result>>
agg_v == <<agg_pc, grouped_indexes, tiles_done>>
final_v == <<final, recv_final_alive>>
progress_v == <<progress, progress_recv_alive>>
out_v == <<outcome, returned>>
count_v == <<recv_count, sent_count, merged_count>>
log_v == <<agg_log, progress_log, final_sent, read_failed>>

GrowIdle ==
    /\ g_pc = "idle"
    /\ g_size = <<1, 1>>
    /\ g_map = {}
    /\ g_start = 0
    /\ g_result = {}
    /\ g_enqueued = {}

\* convert_tiles is entered; the channels exist, the workers and the
\* aggregator are spawned, recv_subset and send_result are dropped by the
\* calling thread (lines 119-189)
NewIdle ==
    /\ n_pc = "idle"
    /\ n_count = 0
    /\ n_inputs = <<>>
    /\ n_h3_resolution = 0
    /\ n_projection = "empty"
    /\ n_geotransform = "ok"
    /\ n_result = "none"

SelectIdle ==
    /\ s_pc = "idle"
    /\ s_size = <<1, 1>>
    /\ s_area = 0
    /\ s_hex_area = 1
    /\ s_mode = "none"

ConvIdle ==
    /\ c_pc = "idle"
    /\ c_shape = <<>>
    /\ c_raster = <<>>
    /\ c_compact = FALSE
    /\ c_tile = 1
    /\ c_attributes_by_pos = <<>>
    /\ c_locals = <<>>
    /\ c_sweep = <<>>
    /\ c_cluster = <<>>
    /\ c_merged = <<>>

PosIdle ==
    /\ p_pc = "idle"
    /\ p_size = <<1, 1>>
    /\ p_pixel = <<0, 0>>
    /\ p_pos = 0
    /\ p_pixel_back = <<>>
    /\ p_pos_back = 0

\* no pure function is called
FnIdle == GrowIdle /\ NewIdle /\ SelectIdle /\ ConvIdle /\ PosIdle

PipeStart(threads) ==
    /\ num_threads \in threads
    /\ tiles_total \in 0..MaxTiles
    /\ compact \in BOOLEAN
    /\ has_progress \in BOOLEAN
    /\ reader_pc = "loop"
    /\ next_tile = 1
    /\ jobs = <<>>
    /\ send_subset_alive = TRUE
    /\ worker_pc = [w \in Workers |-> "recv"]
    /\ worker_subset = [w \in Workers |-> 0]
    /\ worker_result = [w \in Workers |-> <<>>]
    /\ results = <<>>
    /\ agg_pc = "recv"
    /\ grouped_indexes = <<>>
    /\ tiles_done = 0
    /\ final = <<>>
    /\ recv_final_alive = TRUE
    /\ progress = <<>>
    /\ progress_recv_alive = TRUE
    /\ outcome = "running"
    /\ returned = <<>>
    /\ recv_count = [t \in Tiles |-> 0]
    /\ sent_count = [t \in Tiles |-> 0]
    /\ merged_count = [t \in Tiles |-> 0]
    /\ agg_log = <<>>
    /\ progress_log = <<>>
    /\ final_sent = 0
    /\ read_failed = FALSE

Init == PipeStart(1..MaxThreads) /\ FnIdle

(***************************************************************************)
(* The reader: the body of the scope's closure, lines 191-206.             *)
(***************************************************************************)
\* extract_input_bands(tile) succeeds and the subset is built
ReaderExtract ==
    /\ reader_pc = "loop"
    /\ next_tile <= tiles_total
    /\ reader_pc' = "send"
    /\ UNCHANGED <<params, next_tile, jobs_v, worker_v, results, agg_v,
                   final_v, progress_v, out_v, count_v, log_v, fn_vars>>

\* mutant: the send never waits for room in the queue
ReaderSend_Unbounded ==
    /\ reader_pc = "send"
    /\ LiveWorkers # {}
    /\ jobs' = Append(jobs, next_tile)
    /\ next_tile' = next_tile + 1
    /\ reader_pc' = "loop"
    /\ UNCHANGED <<params, send_subset_alive, worker_v, results, agg_v,
                   final_v, progress_v, out_v, count_v, log_v, fn_vars>>

\* send_subset.send(subset): blocks while the queue is full
ReaderSend ==
    /\ reader_pc = "send"
    /\ LiveWorkers # {}
    /\ Len(jobs) < num_threads
    /\ jobs' = Append(jobs, next_tile)
    /\ next_tile' = next_tile + 1
    /\ reader_pc' = "loop"
    /\ UNCHANGED <<params, send_subset_alive, worker_v, results, agg_v,
                   final_v, progress_v, out_v, count_v, log_v, fn_vars>>

\* mutant: send_subset is not dropped before the closure waits for the result
ReaderDrop_Forgotten ==
    /\ reader_pc = "loop"
    /\ next_tile > tiles_total
    /\ reader_pc' = "recv_final"
    /\ UNCHANGED <<params, next_tile, jobs_v, worker_v, results, agg_v,
                   final_v, progress_v, out_v, count_v, log_v, fn_vars>>

\* std::mem::drop(send_subset) after the last tile
ReaderDrop ==
    /\ reader_pc = "loop"
    /\ next_tile > tiles_total
    /\ send_subset_alive' = FALSE
    /\ reader_pc' = "recv_final"
    /\ UNCHANGED <<params, next_tile, jobs, worker_v, results, agg_v,
                   final_v, progress_v, out_v, count_v, log_v, fn_vars>>

\* recv_final_result.recv() gives the map; the closure returns and its
\* locals (recv_final_result among them) are dropped
ReaderRecvFinal ==
    /\ reader_pc = "recv_final"
    /\ final # <<>>
    /\ returned' = Head(final)
    /\ final' = Tail(final)
    /\ recv_final_alive' = FALSE
    /\ reader_pc' = "done"
    /\ UNCHANGED <<params, next_tile, jobs_v, worker_v, results, agg_v,
                   progress_v, outcome, count_v, log_v, fn_vars>>

(***************************************************************************)
(* A worker: the closure spawned at lines 129-158.                         *)
(***************************************************************************)
\* mutant: the subset is read from the queue and left in it
WorkerRecv_Peek(w) ==
    /\ worker_pc[w] = "recv"
    /\ jobs # <<>>
    /\ worker_subset' = [worker_subset EXCEPT ![w] = Head(jobs)]
    /\ worker_pc' = [worker_pc EXCEPT ![w] = "convert"]
    /\ recv_count' = [recv_count EXCEPT ![Head(jobs)] = @ + 1]
    /\ UNCHANGED <<params, reader_v, jobs_v, worker_result,
                   results, agg_v, final_v, progress_v, out_v, sent_count,
                   merged_count, log_v, fn_vars>>

\* thread_recv_subset.iter() yields the next subset
WorkerRecv(w) ==
    /\ worker_pc[w] = "recv"
    /\ jobs # <<>>
    /\ worker_subset' = [worker_subset EXCEPT ![w] = Head(jobs)]
    /\ jobs' = Tail(jobs)
    /\ worker_pc' = [worker_pc EXCEPT ![w] = "convert"]
    /\ recv_count' = [recv_count EXCEPT ![Head(jobs)] = @ + 1]
    /\ UNCHANGED <<params, reader_v, send_subset_alive, worker_result,
                   results, agg_v, final_v, progress_v, out_v, sent_count,
                   merged_count, log_v, fn_vars>>

\* the iterator ends: the queue is empty and its sender is dropped
WorkerClosed(w) ==
    /\ worker_pc[w] = "recv"
    /\ jobs = <<>>
    /\ ~send_subset_alive
    /\ worker_pc' = [worker_pc EXCEPT ![w] = "exit"]
    /\ UNCHANGED <<params, reader_v, jobs_v, worker_subset, worker_result,
                   results, agg_v, final_v, progress_v, out_v, count_v,
                   log_v, fn_vars>>

\* the subset is converted (and consumed) into a partial result
WorkerConvert(w) ==
    /\ worker_pc[w] = "convert"
    /\ worker_result' = [worker_result EXCEPT ![w] =
            [tile |-> worker_subset[w],
             gi |-> ConvertSubset(worker_subset[w], compact)]]
    /\ worker_subset' = [worker_subset EXCEPT ![w] = 0]
    /\ worker_pc' = [worker_pc EXCEPT ![w] = "send"]
    /\ UNCHANGED <<params, reader_v, jobs_v, results, agg_v, final_v,
                   progress_v, out_v, count_v, log_v, fn_vars>>

\* thread_send_result.send(result): blocks while the queue is full
WorkerSend(w) ==
    /\ worker_pc[w] = "send"
    /\ AggAlive
    /\ Len(results) < num_threads
    /\ results' = Append(results, worker_result[w])
    /\ sent_count' = [sent_count EXCEPT ![worker_result[w].tile] = @ + 1]
    /\ worker_result' = [worker_result EXCEPT ![w] = <<>>]
    /\ worker_pc' = [worker_pc EXCEPT ![w] = "recv"]
    /\ UNCHANGED <<params, reader_v, jobs_v, worker_subset, agg_v, final_v,
                   progress_v, out_v, recv_count, merged_count, log_v,
                   fn_vars>>

(***************************************************************************)
(* The aggregator: the closure spawned at lines 163-189.                   *)
(***************************************************************************)
\* recv_result.iter() yields a partial result; it is merged, and with a
\* progress sink tiles_done is counted up before the message is sent
AggRecv ==
    /\ agg_pc = "recv"
    /\ results # <<>>
    /\ grouped_indexes' = MergeResult(grouped_indexes, Head(results).gi)
    /\ results' = Tail(results)
    /\ merged_count' = [merged_count EXCEPT ![Head(results).tile] = @ + 1]
    /\ agg_log' = Append(agg_log, <<"merge", Head(results).tile>>)
    /\ tiles_done' = IF has_progress THEN tiles_done + 1 ELSE tiles_done
    /\ agg_pc' = IF has_progress THEN "progress" ELSE "recv"
    /\ UNCHANGED <<params, reader_v, jobs_v, worker_v, final_v, progress_v,
                   out_v, recv_count, sent_count, progress_log, final_sent,
                   read_failed, fn_vars>>

\* mutant: tiles_done is counted up after the message is sent
AggProgress_CountAfter ==
    /\ agg_pc = "progress"
    /\ progress_recv_alive
    /\ Len(progress) < ProgressCap
    /\ LET msg == [tiles_total |-> tiles_total, tiles_done |-> tiles_done - 1]
       IN  /\ progress' = Append(progress, msg)
           /\ progress_log' = Append(progress_log, msg)
    /\ agg_pc' = "recv"
    /\ UNCHANGED <<params, reader_v, jobs_v, worker_v, results,
                   grouped_indexes, tiles_done, final_v,
                   progress_recv_alive, out_v, count_v, agg_log, final_sent,
                   read_failed, fn_vars>>

\* ps.send(ConversionProgress {tiles_total, tiles_done}): blocks while the
\* sink is full
AggProgress ==
    /\ agg_pc = "progress"
    /\ progress_recv_alive
    /\ Len(progress) < ProgressCap
    /\ LET msg == [tiles_total |-> tiles_total, tiles_done |-> tiles_done]
       IN  /\ progress' = Append(progress, msg)
           /\ progress_log' = Append(progress_log, msg)
    /\ agg_pc' = "recv"
    /\ UNCHANGED <<params, reader_v, jobs_v, worker_v, results,
                   grouped_indexes, tiles_done, final_v,
                   progress_recv_alive, out_v, count_v, agg_log, final_sent,
                   read_failed, fn_vars>>

\* mutant: the aggregator leaves its loop as soon as the queue is empty
AggClosed_QueueEmpty ==
    /\ agg_pc = "recv"
    /\ results = <<>>
    /\ agg_pc' = "compact"
    /\ UNCHANGED <<params, reader_v, jobs_v, worker_v, results,
                   grouped_indexes, tiles_done, final_v, progress_v, out_v,
                   count_v, log_v, fn_vars>>

\* the iterator ends: the queue is empty and every sender is dropped
AggClosed ==
    /\ agg_pc = "recv"
    /\ results = <<>>
    /\ LiveWorkers = {}
    /\ agg_pc' = "compact"
    /\ UNCHANGED <<params, reader_v, jobs_v, worker_v, results,
                   grouped_indexes, tiles_done, final_v, progress_v, out_v,
                   count_v, log_v, fn_vars>>

\* lines 183-187
AggCompact ==
    /\ agg_pc = "compact"
    /\ grouped_indexes' = FinalizeResult(grouped_indexes, compact)
    /\ agg_log' = IF compact
                  THEN agg_log \o [i \in 1..Cardinality(DOMAIN grouped_indexes)
                            |-> <<"compact", SeqOfSet(DOMAIN grouped_indexes)[i]>>]
                  ELSE agg_log
    /\ agg_pc' = "send_final"
    /\ UNCHANGED <<params, reader_v, jobs_v, worker_v, results, tiles_done,
                   final_v, progress_v, out_v, count_v, progress_log,
                   final_sent, read_failed, fn_vars>>

\* send_final_result.send(grouped_indexes); the thread ends
AggSendFinal ==
    /\ agg_pc = "send_final"
    /\ recv_final_alive
    /\ Len(final) < 1
    /\ final' = Append(final, grouped_indexes)
    /\ final_sent' = final_sent + 1
    /\ agg_log' = Append(agg_log, <<"publish", 0>>)
    /\ agg_pc' = "exit"
    /\ UNCHANGED <<params, reader_v, jobs_v, worker_v, results,
                   grouped_indexes, tiles_done, recv_final_alive, progress_v,
                   out_v, count_v, progress_log, read_failed, fn_vars>>

\* whoever holds the Receiver of the progress sink takes a message
ProgressRecv ==
    /\ progress_recv_alive
    /\ progress # <<>>
    /\ progress' = Tail(progress)
    /\ UNCHANGED <<params, reader_v, jobs_v, worker_v, results, agg_v,
                   final_v, progress_recv_alive, out_v, count_v, log_v,
                   fn_vars>>

(***************************************************************************)
(* crossbeam::scope: when the closure has ended, every spawned thread is   *)
(* joined.  A panic of the closure is resumed in the caller; a panic of a  *)
(* spawned thread makes the scope return Err, which map_err turns into     *)
(* Error::ConversionFailed (lines 120, 207-210).                           *)
(***************************************************************************)
ScopeJoin ==
    /\ outcome = "running"
    /\ reader_pc \in {"done", "panicked"}
    /\ LiveWorkers = {}
    /\ ~AggAlive
    /\ outcome' = IF reader_pc = "panicked" THEN "panic"
                  ELSE IF agg_pc = "panicked"
                          \/ \E w \in Workers : worker_pc[w] = "panicked"
                       THEN "ConversionFailed"
                       ELSE "Ok"
    /\ UNCHANGED <<params, reader_v, jobs_v, worker_v, results, agg_v,
                   final_v, progress_v, returned, count_v, log_v, fn_vars>>

Reader == ReaderExtract \/ ReaderSend \/ ReaderDrop \/ ReaderRecvFinal
Worker(w) == WorkerRecv(w) \/ WorkerClosed(w) \/ WorkerConvert(w) \/ WorkerSend(w)
Aggregator == AggRecv \/ AggProgress \/ AggClosed \/ AggCompact \/ AggSendFinal

Next ==
    \/ Reader
    \/ \E w \in Workers : Worker(w)
    \/ Aggregator
    \/ ProgressRecv
    \/ ScopeJoin

Spec == Init /\ [][Next]_vars

\* the scheduler runs some thread while some thread can take a step
Fairness == WF_vars(Next)

\* the runs checked for completion: at most LiveTiles tiles
FairInit == Init /\ tiles_total <= LiveTiles

FairSpec == FairInit /\ [][Next]_vars /\ Fairness

(***************************************************************************)
(* Failures.  Every unwrap()/expect() of convert_tiles panics its thread   *)
(* on an Err; a conversion may panic; the holder of the progress sink's    *)
(* Receiver may drop it.  A panicking thread drops what it owns.           *)
(***************************************************************************)
\* self.extract_input_bands(tile).unwrap() on a failed raster read
ReaderExtractFail ==
    /\ reader_pc = "loop"
    /\ next_tile <= tiles_total
    /\ read_failed' = TRUE
    /\ reader_pc' = "unwind"
    /\ UNCHANGED <<params, next_tile, jobs_v, worker_v, results, agg_v,
                   final_v, progress_v, out_v, count_v, agg_log,
                   progress_log, final_sent, fn_vars>>

\* mutant: a send on the queue without Receiver waits for room
ReaderSendFail_Waits ==
    /\ reader_pc = "send"
    /\ LiveWorkers = {}
    /\ Len(jobs) < num_threads
    /\ reader_pc' = "unwind"
    /\ UNCHANGED <<params, next_tile, jobs_v, worker_v, results, agg_v,
                   final_v, progress_v, out_v, count_v, log_v, fn_vars>>

\* send_subset.send(subset).unwrap() when every Receiver of jobs is dropped
ReaderSendFail ==
    /\ reader_pc = "send"
    /\ LiveWorkers = {}
    /\ reader_pc' = "unwind"
    /\ UNCHANGED <<params, next_tile, jobs_v, worker_v, results, agg_v,
                   final_v, progress_v, out_v, count_v, log_v, fn_vars>>

\* recv_final_result.recv().unwrap() when the queue is empty and its
\* Sender is dropped
ReaderRecvFinalFail ==
    /\ reader_pc = "recv_final"
    /\ final = <<>>
    /\ ~AggAlive
    /\ reader_pc' = "unwind"
    /\ UNCHANGED <<params, next_tile, jobs_v, worker_v, results, agg_v,
                   final_v, progress_v, out_v, count_v, log_v, fn_vars>>

\* the closure unwinds: its locals are dropped in reverse order of
\* declaration, recv_final_result before send_subset
ReaderUnwindFinal ==
    /\ reader_pc = "unwind"
    /\ recv_final_alive' = FALSE
    /\ reader_pc' = "unwind_jobs"
    /\ UNCHANGED <<params, next_tile, jobs_v, worker_v, results, agg_v,
                   final, progress_v, out_v, count_v, log_v, fn_vars>>

ReaderUnwindJobs ==
    /\ reader_pc = "unwind_jobs"
    /\ send_subset_alive' = FALSE
    /\ reader_pc' = "panicked"
    /\ UNCHANGED <<params, next_tile, jobs, worker_v, results, agg_v,
                   final_v, progress_v, out_v, count_v, log_v, fn_vars>>

\* the conversion of a subset panics
WorkerPanic(w) ==
    /\ worker_pc[w] = "convert"
    /\ worker_subset' = [worker_subset EXCEPT ![w] = 0]
    /\ worker_pc' = [worker_pc EXCEPT ![w] = "panicked"]
    /\ UNCHANGED <<params, reader_v, jobs_v, worker_result, results, agg_v,
                   final_v, progress_v, out_v, count_v, log_v, fn_vars>>

\* thread_send_result.send(result).expect(..) when recv_result is dropped
WorkerSendFail(w) ==
    /\ worker_pc[w] = "send"
    /\ ~AggAlive
    /\ worker_result' = [worker_result EXCEPT ![w] = <<>>]
    /\ worker_pc' = [worker_pc EXCEPT ![w] = "panicked"]
    /\ UNCHANGED <<params, reader_v, jobs_v, worker_subset, results, agg_v,
                   final_v, progress_v, out_v, count_v, log_v, fn_vars>>

\* ps.send(..).unwrap() when the sink's Receiver is dropped
AggProgressFail ==
    /\ agg_pc = "progress"
    /\ ~progress_recv_alive
    /\ agg_pc' = "panicked"
    /\ UNCHANGED <<params, reader_v, jobs_v, worker_v, results,
                   grouped_indexes, tiles_done, final_v, progress_v, out_v,
                   count_v, log_v, fn_vars>>

\* send_final_result.send(..).unwrap() when recv_final_result is dropped
AggSendFinalFail ==
    /\ agg_pc = "send_final"
    /\ ~recv_final_alive
    /\ agg_pc' = "panicked"
    /\ UNCHANGED <<params, reader_v, jobs_v, worker_v, results,
                   grouped_indexes, tiles_done, final_v, progress_v, out_v,
                   count_v, log_v, fn_vars>>

\* the holder of the progress sink's Receiver drops it
ProgressDrop ==
    /\ has_progress
    /\ progress_recv_alive
    /\ outcome = "running"
    /\ progress_recv_alive' = FALSE
    /\ progress' = <<>>
    /\ UNCHANGED <<params, reader_v, jobs_v, worker_v, results, agg_v,
                   final_v, out_v, count_v, log_v, fn_vars>>

ReaderFail ==
    \/ ReaderExtractFail \/ ReaderSendFail \/ ReaderRecvFinalFail
    \/ ReaderUnwindFinal \/ ReaderUnwindJobs
WorkerFail(w) == WorkerPanic(w) \/ WorkerSendFail(w)
AggFail == AggProgressFail \/ AggSendFinalFail

NextFail ==
    \/ Next
    \/ ReaderFail
    \/ \E w \in Workers : WorkerFail(w)
    \/ AggFail
    \/ ProgressDrop

SpecFail == Init /\ [][NextFail]_vars

(***************************************************************************)
(* convert_tiles with num_threads = 0: the loop of line 126 spawns no      *)
(* worker, lines 160-161 drop the only Receiver of jobs and the only       *)
(* Sender of results, and both queues are of capacity 0 (lines 121-122).   *)
(* The steps are those of NextFail that do not need a worker.              *)
(***************************************************************************)
ZeroInit == PipeStart({0}) /\ FnIdle

ZeroNext ==
    \/ ReaderExtract \/ ReaderDrop \/ ReaderRecvFinal
    \/ ReaderExtractFail \/ ReaderSendFail
    \/ ReaderUnwindFinal \/ ReaderUnwindJobs
    \/ AggClosed \/ AggCompact \/ AggSendFinal \/ AggSendFinalFail
    \/ ProgressDrop
    \/ ScopeJoin

\* the scheduler runs the reader or the aggregator while one of them can
\* take a step
ZeroSpec == ZeroInit /\ [][ZeroNext]_vars /\ WF_vars(ZeroNext)

(***************************************************************************)
(* The pixel region grower, lines 219-227 and 456-488.                     *)
(***************************************************************************)
\* tile_pixel = (column, row), tile_size = (width, height)
pixel_to_array_position(tile_pixel, tile_size) ==
    (tile_pixel[2] * tile_size[1]) + tile_pixel[1]

array_position_to_pixel(array_pos, tile_size) ==
    <<array_pos \div tile_size[1], array_pos % tile_size[1]>>

\* the (i, j) of the two nested `for .. in -1..=1` loops, in loop order
GrowOffsets ==
    <<<<-1, -1>>, <<-1, 0>>, <<-1, 1>>,
      <<0, -1>>,  <<0, 0>>,  <<0, 1>>,
      <<1, -1>>,  <<1, 0>>,  <<1, 1>>>>

\* the map keys the loops at lines 471-485 push for the popped position
GrowPushed(pos, tile_size, indexes_of_cluster) ==
    LET KeyOf(o) ==
            pixel_to_array_position(<<pos[2] + o[2], pos[1] + o[1]>>, tile_size)
        Passes(o) ==
            /\ ~(((pos[1] = 0) /\ (o[1] = -1))
                    \/ ((pos[1] = tile_size[1]) /\ (o[1] = 1)))
            /\ ~(((pos[2] = 0) /\ (o[2] = -1))
                    \/ ((pos[2] = tile_size[2]) /\ (o[2] = 1)))
            /\ KeyOf(o) \notin indexes_of_cluster
        kept == SelectSeq(GrowOffsets, Passes)
    IN  [n \in 1..Len(kept) |-> KeyOf(kept[n])]

\* the `while let Some(next_index) = indexes_to_check.pop_back()` loop
RECURSIVE GrowLoop(_, _, _, _)
GrowLoop(keys, tile_size, indexes_of_cluster, indexes_to_check) ==
    IF indexes_to_check = <<>> THEN indexes_of_cluster
    ELSE LET next_index == indexes_to_check[Len(indexes_to_check)]
             rest == SubSeq(indexes_to_check, 1, Len(indexes_to_check) - 1)
         IN  IF next_index \notin keys
             THEN GrowLoop(keys, tile_size, indexes_of_cluster, rest)
             ELSE IF next_index \in indexes_of_cluster
             THEN GrowLoop(keys, tile_size, indexes_of_cluster, rest)
             ELSE LET grown == indexes_of_cluster \cup {next_index}
                      pos == array_position_to_pixel(next_index, tile_size)
                  IN  GrowLoop(keys, tile_size, grown,
                               rest \o GrowPushed(pos, tile_size, grown))

\* the pairs <<next_index, map_key>> of the same loop: map_key is pushed
\* (line 483) while the neighbours of the popped next_index are visited
RECURSIVE GrowEnqueued(_, _, _, _)
GrowEnqueued(keys, tile_size, indexes_of_cluster, indexes_to_check) ==
    IF indexes_to_check = <<>> THEN {}
    ELSE LET next_index == indexes_to_check[Len(indexes_to_check)]
             rest == SubSeq(indexes_to_check, 1, Len(indexes_to_check) - 1)
         IN  IF next_index \notin keys \/ next_index \in indexes_of_cluster
             THEN GrowEnqueued(keys, tile_size, indexes_of_cluster, rest)
             ELSE LET grown == indexes_of_cluster \cup {next_index}
                      pos == array_position_to_pixel(next_index, tile_size)
                      pushed == GrowPushed(pos, tile_size, grown)
                  IN  {<<next_index, k>> : k \in Range(pushed)}
                        \cup GrowEnqueued(keys, tile_size, grown, rest \o pushed)

\* mutant: the seed is put into the cluster without looking it up
grow_region_starting_with_index_SeedKept(keys, start_index, tile_size) ==
    GrowLoop(keys, tile_size, {}, <<start_index>>) \cup {start_index}

\* keys: the key set of index_hashmap
grow_region_starting_with_index(keys, start_index, tile_size) ==
    GrowLoop(keys, tile_size, {}, <<start_index>>)

\* the pipeline's variables while no conversion runs
PipeIdle ==
    /\ num_threads = 0
    /\ tiles_total = 0
    /\ compact = FALSE
    /\ has_progress = FALSE
    /\ reader_pc = "idle"
    /\ next_tile = 1
    /\ jobs = <<>>
    /\ send_subset_alive = FALSE
    /\ worker_pc = <<>>
    /\ worker_subset = <<>>
    /\ worker_result = <<>>
    /\ results = <<>>
    /\ agg_pc = "idle"
    /\ grouped_indexes = <<>>
    /\ tiles_done = 0
    /\ final = <<>>
    /\ recv_final_alive = FALSE
    /\ progress = <<>>
    /\ progress_recv_alive = FALSE
    /\ outcome = "idle"
    /\ returned = <<>>
    /\ recv_count = <<>>
    /\ sent_count = <<>>
    /\ merged_count = <<>>
    /\ agg_log = <<>>
    /\ progress_log = <<>>
    /\ final_sent = 0
    /\ read_failed = FALSE

\* the sparse maps of a tile of the given size: at most MaxOccupied keys,
\* every key an array position of the tile
SparseMaps(tile_size) ==
    {m \in SUBSET (0..(tile_size[1] * tile_size[2] - 1)) :
        Cardinality(m) <= MaxOccupied}

GrowInit ==
    /\ PipeIdle
    /\ PosIdle
    /\ NewIdle
    /\ SelectIdle
    /\ ConvIdle
    /\ g_pc = "call"
    /\ g_size \in (1..MaxWidth) \X (1..MaxHeight)
    /\ g_map \in SparseMaps(g_size)
    /\ g_start \in 0..(g_size[1] * g_size[2] - 1)
    /\ g_result = {}
    /\ g_enqueued = {}

GrowCall ==
    /\ g_pc = "call"
    /\ g_result' = grow_region_starting_with_index(g_map, g_start, g_size)
    /\ g_enqueued' = GrowEnqueued(g_map, g_size, {}, <<g_start>>)
    /\ g_pc' = "done"
    /\ UNCHANGED <<pipe_vars, pos_vars, new_vars, select_vars, conv_vars, g_size, g_map,
                   g_start>>

GrowNext == GrowCall

GrowSpec == GrowInit /\ [][GrowNext]_vars

(***************************************************************************)
(* What the tile converters use of the other modules of the crate and of   *)
(* the h3 crate.  Coordinates are pairs <<x, y>> of whole units.  The      *)
(* cells of the target resolution tile the plane like bricks, two units    *)
(* wide and two units high, every row shifted by one unit against the row  *)
(* below: every cell has six neighbours.  Cell (q, r), column q of row r,  *)
(* has its center at <<2q + r, 2r + 1>>.  The target resolution is 2, its  *)
(* cells are 57 .. 399: row r holds 49 of them, q = -7 .. 41, and the      *)
(* cells (7k .. 7k+6, r) have one parent.                                  *)
(***************************************************************************)
H3Index(q, r) == 57 + 49 * (r + 1) + (q + 7)
CellQ(h3index) == ((h3index - 57) % 49) - 7
CellR(h3index) == ((h3index - 57) \div 49) - 1

\* Index::coordinate(): the center of the cell
coordinate(h3index) ==
    <<2 * CellQ(h3index) + CellR(h3index), 2 * CellR(h3index) + 1>>

\* Index::from_coordinate(c, h3_resolution): the cell that holds c
from_coordinate(c) ==
    LET r == c[2] \div 2
    IN  H3Index((c[1] - r + 1) \div 2, r)

\* Index::k_ring(1): the cell and its six neighbours
k_ring(h3index) ==
    LET q == CellQ(h3index)
        r == CellR(h3index)
    IN  <<H3Index(q, r), H3Index(q + 1, r), H3Index(q, r + 1),
          H3Index(q - 1, r + 1), H3Index(q - 1, r), H3Index(q, r - 1),
          H3Index(q + 1, r - 1)>>

\* GeoTransformer of a north-up raster whose pixels are `scale` units wide
\* and high, pixel (0, 0) at the coordinate <<0, 0>>
pixel_to_coordinate(pixel, scale) == <<pixel[1] * scale, pixel[2] * scale>>
coordinate_to_pixel(c, scale) == <<c[1] \div scale, c[2] \div scale>>

\* geo::rect_from_coordinates, geo::rect_contains (closed intervals)
rect_from_coordinates(c1, c2) ==
    [min |-> <<IF c1[1] < c2[1] THEN c1[1] ELSE c2[1],
               IF c1[2] < c2[2] THEN c1[2] ELSE c2[2]>>,
     max |-> <<IF c1[1] < c2[1] THEN c2[1] ELSE c1[1],
               IF c1[2] < c2[2] THEN c2[2] ELSE c1[2]>>]

rect_contains(rect, c) ==
    /\ rect.min[1] <= c[1] /\ c[1] <= rect.max[1]
    /\ rect.min[2] <= c[2] /\ c[2] <= rect.max[2]

\* Tile::to_tile_relative_pixel, Tile::center_pixel
to_tile_relative_pixel(tile, pixel) ==
    <<pixel[1] - tile.offset_origin[1], pixel[2] - tile.offset_origin[2]>>

center_pixel(tile) ==
    <<tile.offset_origin[1] + (tile.size[1] \div 2),
      tile.offset_origin[2] + (tile.size[2] \div 2)>>

\* Option<Value>: None is <<>>, Some(v) is <<v>>
None == <<>>
is_some(a) == a # None

(***************************************************************************)
(* The tile converters, lines 131-137, 234-376 and 380-451.  A subset is   *)
(* [tile, scale, banddata]: scale stands for the geotransformer, banddata  *)
(* holds one sequence per band, array position p at index p + 1.           *)
(***************************************************************************)
\* mutant: the far corner is taken one unit beyond the tile
TileBounds_UnitBeyond(subset) ==
    LET far == pixel_to_coordinate(
                   <<subset.tile.offset_origin[1] + subset.tile.size[1],
                     subset.tile.offset_origin[2] + subset.tile.size[2]>>,
                   subset.scale)
    IN  rect_from_coordinates(<<far[1] + 1, far[2] + 1>>,
            pixel_to_coordinate(subset.tile.offset_origin, subset.scale))

\* tile_bounds as the worker computes it, lines 131-137
TileBounds(subset) ==
    rect_from_coordinates(
        pixel_to_coordinate(<<subset.tile.offset_origin[1] + subset.tile.size[1],
                              subset.tile.offset_origin[2] + subset.tile.size[2]>>,
                            subset.scale),
        pixel_to_coordinate(subset.tile.offset_origin, subset.scale))

\* pixel_to_array_position(tile.to_tile_relative_pixel(
\*     geotransformer.coordinate_to_pixel(coordinate)), tile.size)
IndexPos(subset, c) ==
    pixel_to_array_position(
        to_tile_relative_pixel(subset.tile, coordinate_to_pixel(c, subset.scale)),
        subset.tile.size)

\* bd.get(array_pos), None where the band holds no such position
BandGet(bd, array_pos) ==
    IF array_pos \in 0..(Len(bd) - 1) THEN bd[array_pos + 1] ELSE None

\* entry(k).or_insert_with(Vec::new).push(x) on a map of sequences
MapPush(map, k, x) ==
    [kk \in DOMAIN map \cup {k} |->
        IF kk = k THEN (IF k \in DOMAIN map THEN map[k] ELSE <<>>) \o <<x>>
        ELSE map[kk]]

\* the bucket size above which sweep mode flushes a bucket early: 20_000
\* at line 427, scaled down to the tiles converted here, which hold a few
\* dozen cells
FlushLimit == 2

\* indexes_to_add after append_to_resolution has taken the cells of the
\* bucket of `attributes`: the bucket stays in the map, empty
SweepFlushed(pushed, attributes) == [pushed EXCEPT ![attributes] = <<>>]

\* grouped_indexes.entry(attributes).or_insert_with(H3IndexStack::new)
\*     .append_to_resolution(h3_resolution, h3indexes, compact)
GroupedAppend(grouped, attributes, h3indexes, do_compact) ==
    [k \in DOMAIN grouped \cup {attributes} |->
        IF k = attributes
        THEN StackAppendToResolution(
                 IF k \in DOMAIN grouped THEN grouped[k] ELSE <<>>,
                 h3indexes, do_compact)
        ELSE grouped[k]]

\* mutant: the buckets left at the end of the tile are dropped
DrainInto_Skipped(grouped, indexes_to_add, do_compact) == grouped

\* the `for .. in indexes_to_add.drain()` loops, lines 361-372 and 444-448
RECURSIVE DrainInto(_, _, _)
DrainInto(grouped, indexes_to_add, do_compact) ==
    IF DOMAIN indexes_to_add = {} THEN grouped
    ELSE LET k == CHOOSE kk \in DOMAIN indexes_to_add : TRUE
         IN  DrainInto(GroupedAppend(grouped, k, indexes_to_add[k], do_compact),
                       [kk \in DOMAIN indexes_to_add \ {k} |-> indexes_to_add[kk]],
                       do_compact)

\* the neighbours of a cell that are neither visited nor scheduled
NewNeighbors(h3index, visited, scheduled) ==
    SelectSeq(k_ring(h3index), LAMBDA n : n \notin visited \cup scheduled)

\* the `while let Some(this_h3index) = indexes_to_check.pop_front()` loop
\* of convert_subset_by_checking_index_positions, lines 396-442; st holds
\* the locals and, as history, the <<attributes, cell>> pairs pushed
\* (emitted), the cells whose neighbours were enumerated (explored), the
\* length of the longest bucket seen after a push (largest), the number
\* of early flushes (flushes) and the cells in the order of their
\* push_back (enqueued) and of their pop_front (dequeued)
RECURSIVE SweepLoop(_, _, _, _)
SweepLoop(tile_bounds, subset, do_compact, st) ==
    IF st.indexes_to_check = <<>> THEN st
    ELSE
    LET this_h3index == Head(st.indexes_to_check)
        visited == st.indexes_visited \cup {this_h3index}
        scheduled == st.indexes_scheduled \ {this_h3index}
        center == coordinate(this_h3index)
        array_pos == IndexPos(subset, center)
        attributes == [b \in 1..Len(subset.banddata) |->
                          BandGet(subset.banddata[b], array_pos)]
        add == \E b \in 1..Len(attributes) : is_some(attributes[b])
        pushed == IF add THEN MapPush(st.indexes_to_add, attributes, this_h3index)
                  ELSE st.indexes_to_add
        flush == add /\ Len(pushed[attributes]) > FlushLimit
        neighbors == NewNeighbors(this_h3index, visited, scheduled)
    IN  IF ~rect_contains(tile_bounds, center)
        THEN SweepLoop(tile_bounds, subset, do_compact,
                [st EXCEPT !.indexes_to_check = Tail(@),
                           !.indexes_visited = visited,
                           !.indexes_scheduled = scheduled,
                           !.dequeued = Append(@, this_h3index)])
        ELSE SweepLoop(tile_bounds, subset, do_compact,
                [indexes_to_check |-> Tail(st.indexes_to_check) \o neighbors,
                 indexes_visited |-> visited,
                 indexes_scheduled |-> scheduled \cup Range(neighbors),
                 indexes_to_add |->
                    IF flush THEN SweepFlushed(pushed, attributes) ELSE pushed,
                 grouped_indexes |->
                    IF flush
                    THEN GroupedAppend(st.grouped_indexes, attributes,
                                       pushed[attributes], do_compact)
                    ELSE st.grouped_indexes,
                 emitted |-> IF add
                             THEN st.emitted \cup {<<attributes, this_h3index>>}
                             ELSE st.emitted,
                 explored |-> st.explored \cup {this_h3index},
                 largest |-> IF add /\ Len(pushed[attributes]) > st.largest
                             THEN Len(pushed[attributes]) ELSE st.largest,
                 flushes |-> IF flush THEN st.flushes + 1 ELSE st.flushes,
                 enqueued |-> st.enqueued \o neighbors,
                 dequeued |-> Append(st.dequeued, this_h3index)])

\* convert_subset_by_checking_index_positions(tile_bounds, subset, compact):
\* the GroupedH3Indexes it returns, with the history of the loop
convert_subset_by_checking_index_positions(tile_bounds, subset, do_compact) ==
    LET seed == from_coordinate(
                    pixel_to_coordinate(center_pixel(subset.tile), subset.scale))
        st == SweepLoop(tile_bounds, subset, do_compact,
                [indexes_to_check |-> <<seed>>,
                 indexes_visited |-> {},
                 indexes_scheduled |-> {},
                 indexes_to_add |-> <<>>,
                 grouped_indexes |-> <<>>,
                 emitted |-> {},
                 explored |-> {},
                 largest |-> 0,
                 flushes |-> 0,
                 enqueued |-> <<seed>>,
                 dequeued |-> <<>>])
    IN  [grouped_indexes |->
            DrainInto(st.grouped_indexes, st.indexes_to_add, do_compact),
         emitted |-> st.emitted,
         explored |-> st.explored,
         largest |-> st.largest,
         flushes |-> st.flushes,
         enqueued |-> st.enqueued,
         dequeued |-> st.dequeued]

\* mutant: every position of the tile is kept, whatever its values
AttributesByPos_Unfiltered(banddata) ==
    [idx \in 0..(Len(banddata[1]) - 1) |->
        [b \in 1..Len(banddata) |-> banddata[b][idx + 1]]]

\* attributes_by_pos of convert_subset_by_filtering_and_region_growing,
\* lines 255-282: the positions that hold a value of every band, one of
\* them at least not None
AttributesByPos(banddata) ==
    LET n_bands == Len(banddata)
        l == IF banddata = <<>> THEN 0
             ELSE CHOOSE n \in {Len(banddata[b]) : b \in 1..n_bands} :
                      \A b \in 1..n_bands : Len(banddata[b]) <= n
        pixel_vec(idx) ==
            LET bands == SelectSeq(banddata, LAMBDA bd : idx < Len(bd))
            IN  [b \in 1..Len(bands) |-> bands[b][idx + 1]]
    IN  [idx \in {i \in 0..(l - 1) :
                    /\ Len(pixel_vec(i)) = n_bands
                    /\ \E b \in 1..n_bands : is_some(pixel_vec(i)[b])}
            |-> pixel_vec(idx)]

\* the cell found for a position of the cluster, lines 297-306
NearestIndex(subset, cluster_pos) ==
    LET pixel_in_tile == array_position_to_pixel(cluster_pos, subset.tile.size)
    IN  from_coordinate(pixel_to_coordinate(
            <<subset.tile.offset_origin[1] + pixel_in_tile[2],
              subset.tile.offset_origin[2] + pixel_in_tile[1]>>, subset.scale))

\* the cells the `for cluster_pos in cluster.iter()` loop, lines 296-323,
\* can end with: it takes the first position, in the order the HashSet
\* iterates, whose cell has its center in the tile and in the cluster
ClusterEntries(tile_bounds, subset, cluster) ==
    {NearestIndex(subset, cluster_pos) : cluster_pos \in
        {pos \in cluster :
            LET center == coordinate(NearestIndex(subset, pos))
            IN  /\ rect_contains(tile_bounds, center)
                /\ IndexPos(subset, center) \in cluster}}

\* the `while let Some(this_h3index) = indexes_to_check.pop_front()` loop
\* of convert_subset_by_filtering_and_region_growing, lines 328-353; as
\* history st holds the emitted pairs, the explored cells and the cells
\* of this pass in the order of their push_back (enqueued)
RECURSIVE HexLoop(_, _, _, _, _)
HexLoop(tile_bounds, subset, cluster, attributes_by_pos, st) ==
    IF st.indexes_to_check = <<>> THEN st
    ELSE
    LET this_h3index == Head(st.indexes_to_check)
        visited == st.indexes_visited \cup {this_h3index}
        center == coordinate(this_h3index)
        this_index_pos == IndexPos(subset, center)
        skipped == [st EXCEPT !.indexes_to_check = Tail(@),
                              !.indexes_visited = visited]
        attributes == attributes_by_pos[this_index_pos]
        neighbors == NewNeighbors(this_h3index, visited, st.indexes_scheduled)
    IN  IF ~rect_contains(tile_bounds, center)
        THEN HexLoop(tile_bounds, subset, cluster, attributes_by_pos, skipped)
        ELSE IF this_index_pos \notin cluster
        THEN HexLoop(tile_bounds, subset, cluster, attributes_by_pos, skipped)
        ELSE IF this_index_pos \notin DOMAIN attributes_by_pos
        THEN HexLoop(tile_bounds, subset, cluster, attributes_by_pos, skipped)
        ELSE HexLoop(tile_bounds, subset, cluster, attributes_by_pos,
                [indexes_to_check |-> Tail(st.indexes_to_check) \o neighbors,
                 indexes_visited |-> visited,
                 indexes_scheduled |-> st.indexes_scheduled \cup Range(neighbors),
                 indexes_to_add |->
                    MapPush(st.indexes_to_add, attributes, this_h3index),
                 emitted |-> st.emitted \cup {<<attributes, this_h3index>>},
                 explored |-> st.explored \cup {this_h3index},
                 enqueued |-> st.enqueued \o neighbors])

\* mutant: a pass retires its seed only
ClusterPass_SeedOnly(tile_bounds, subset, attributes_by_pos, array_pos, entry, st) ==
    LET cluster == grow_region_starting_with_index(
                       DOMAIN attributes_by_pos, array_pos, subset.tile.size)
        grown == HexLoop(tile_bounds, subset, cluster, attributes_by_pos,
                    [indexes_to_check |-> entry,
                     indexes_visited |-> {},
                     indexes_scheduled |-> Range(entry),
                     indexes_to_add |-> st.indexes_to_add,
                     emitted |-> st.emitted,
                     explored |-> st.explored,
                     enqueued |-> entry])
    IN  [attributes_by_pos |->
            [pos \in DOMAIN attributes_by_pos \ {array_pos} |->
                attributes_by_pos[pos]],
         indexes_to_add |-> grown.indexes_to_add,
         emitted |-> grown.emitted,
         explored |-> grown.explored,
         enqueued |-> grown.enqueued]

\* mutant: a pass that finds no entry cell leaves the map as it is
ClusterPass_Kept(tile_bounds, subset, attributes_by_pos, array_pos, entry, st) ==
    LET cluster == grow_region_starting_with_index(
                       DOMAIN attributes_by_pos, array_pos, subset.tile.size)
        grown == HexLoop(tile_bounds, subset, cluster, attributes_by_pos,
                    [indexes_to_check |-> entry,
                     indexes_visited |-> {},
                     indexes_scheduled |-> Range(entry),
                     indexes_to_add |-> st.indexes_to_add,
                     emitted |-> st.emitted,
                     explored |-> st.explored,
                     enqueued |-> entry])
    IN  [attributes_by_pos |->
            IF entry = <<>> THEN attributes_by_pos
            ELSE [pos \in DOMAIN attributes_by_pos \ cluster |->
                    attributes_by_pos[pos]],
         indexes_to_add |-> grown.indexes_to_add,
         emitted |-> grown.emitted,
         explored |-> grown.explored,
         enqueued |-> grown.enqueued]

\* one pass of `while !attributes_by_pos.is_empty()`, lines 287-358, for
\* the seed array_pos and the entry cell the HashMap and HashSet orders
\* give (entry = <<>>: no position of the cluster gave one): the locals
\* after the pass
ClusterPass(tile_bounds, subset, attributes_by_pos, array_pos, entry, st) ==
    LET cluster == grow_region_starting_with_index(
                       DOMAIN attributes_by_pos, array_pos, subset.tile.size)
        grown == HexLoop(tile_bounds, subset, cluster, attributes_by_pos,
                    [indexes_to_check |-> entry,
                     indexes_visited |-> {},
                     indexes_scheduled |-> Range(entry),
                     indexes_to_add |-> st.indexes_to_add,
                     emitted |-> st.emitted,
                     explored |-> st.explored,
                     enqueued |-> entry])
    IN  [attributes_by_pos |->
            [pos \in DOMAIN attributes_by_pos \ cluster |-> attributes_by_pos[pos]],
         indexes_to_add |-> grown.indexes_to_add,
         emitted |-> grown.emitted,
         explored |-> grown.explored,
         enqueued |-> grown.enqueued]

\* the entry cells a pass from the seed array_pos can start with
PassEntries(tile_bounds, subset, attributes_by_pos, array_pos) ==
    LET found == ClusterEntries(tile_bounds, subset,
                    grow_region_starting_with_index(
                        DOMAIN attributes_by_pos, array_pos, subset.tile.size))
    IN  IF found = {} THEN {<<>>} ELSE {<<h>> : h \in found}

(***************************************************************************)
(* The conversion of every tile of a raster, by either converter, and the  *)
(* aggregator's merge of the partial results.                              *)
(***************************************************************************)
\* tile::generate_tiles(raster_size, tile_size): the tiles row by row, the
\* tiles at the right and bottom edge cut to the raster
generate_tiles(raster_size, tile_size) ==
    LET cols == (raster_size[1] + tile_size[1] - 1) \div tile_size[1]
        rows == (raster_size[2] + tile_size[2] - 1) \div tile_size[2]
        Cut(origin, len, total) == IF origin + len > total THEN total - origin ELSE len
    IN  [n \in 1..(cols * rows) |->
            LET ox == ((n - 1) % cols) * tile_size[1]
                oy == ((n - 1) \div cols) * tile_size[2]
            IN  [offset_origin |-> <<ox, oy>>,
                 size |-> <<Cut(ox, tile_size[1], raster_size[1]),
                            Cut(oy, tile_size[2], raster_size[2])>>]]

\* extract_input_bands(tile), lines 86-116: the classified values of the
\* tile's window, band by band, row by row
extract_input_bands(raster, raster_size, n_bands, tile) ==
    [b \in 1..n_bands |->
        [p \in 1..(tile.size[1] * tile.size[2]) |->
            LET col == tile.offset_origin[1] + ((p - 1) % tile.size[1])
                row == tile.offset_origin[2] + ((p - 1) \div tile.size[1])
            IN  raster[row * raster_size[1] + col + 1][b]]]

\* the rasters converted: raster size, tile size, width of a pixel
ConvShapes ==
    {[raster |-> <<2, 1>>, tile |-> <<1, 1>>, scale |-> 8],
     [raster |-> <<4, 2>>, tile |-> <<2, 2>>, scale |-> 4],
     [raster |-> <<4, 2>>, tile |-> <<2, 2>>, scale |-> 2],
     [raster |-> <<3, 2>>, tile |-> <<2, 2>>, scale |-> 2],
     [raster |-> <<4, 2>>, tile |-> <<2, 2>>, scale |-> 1],
     [raster |-> <<3, 3>>, tile |-> <<3, 3>>, scale |-> 2]}

\* what the classifiers give for a pixel, band 1 and band 2
NoValue == <<None, None>>
PixelValues == {<<<<1>>, None>>, <<None, <<2>>>>}

ConvTiles == generate_tiles(c_shape.raster, c_shape.tile)

\* the ConversionSubset the reader builds for tile t, lines 192-198
ConvSubset(t) ==
    [tile |-> ConvTiles[t],
     scale |-> c_shape.scale,
     banddata |-> extract_input_bands(c_raster, c_shape.raster, Len(NoValue),
                                      ConvTiles[t])]

ConvInit ==
    /\ PipeIdle
    /\ PosIdle
    /\ GrowIdle
    /\ NewIdle
    /\ SelectIdle
    /\ c_pc = "sweep"
    /\ c_shape \in ConvShapes
    /\ \E occupied \in {o \in SUBSET (1..(c_shape.raster[1] * c_shape.raster[2])) :
                            Cardinality(o) <= ConvOccupied} :
        \E values \in [occupied -> PixelValues] :
            c_raster = [p \in 1..(c_shape.raster[1] * c_shape.raster[2]) |->
                            IF p \in occupied THEN values[p] ELSE NoValue]
    /\ c_compact \in BOOLEAN
    /\ c_tile = 1
    /\ c_attributes_by_pos = <<>>
    /\ c_locals = <<>>
    /\ c_sweep = <<>>
    /\ c_cluster = <<>>
    /\ c_merged = <<>>

\* convert_subset_by_checking_index_positions on the tile
ConvSweep ==
    /\ c_pc = "sweep"
    /\ c_sweep' = Append(c_sweep,
            convert_subset_by_checking_index_positions(
                TileBounds(ConvSubset(c_tile)), ConvSubset(c_tile), c_compact))
    /\ c_pc' = "filter"
    /\ UNCHANGED <<pipe_vars, pos_vars, grow_vars, new_vars, select_vars, c_shape,
                   c_raster, c_compact, c_tile, c_attributes_by_pos, c_locals,
                   c_cluster, c_merged>>

\* convert_subset_by_filtering_and_region_growing on the same tile: up to
\* the `while !attributes_by_pos.is_empty()` loop
ConvFilter ==
    /\ c_pc = "filter"
    /\ c_attributes_by_pos' = AttributesByPos(ConvSubset(c_tile).banddata)
    /\ c_locals' = [indexes_to_add |-> <<>>, emitted |-> {}, explored |-> {},
                    enqueued |-> <<>>, passes |-> 0, barren |-> 0]
    /\ c_pc' = "cluster"
    /\ UNCHANGED <<pipe_vars, pos_vars, grow_vars, new_vars, select_vars, c_shape,
                   c_raster, c_compact, c_tile, c_sweep, c_cluster, c_merged>>

\* one pass of the loop: the seed is the first entry of the HashMap, the
\* entry cell the first fitting one of the HashSet, in any order; as
\* history the passes are counted, and those that found no entry cell
ConvCluster ==
    /\ c_pc = "cluster"
    /\ DOMAIN c_attributes_by_pos # {}
    /\ \E array_pos \in DOMAIN c_attributes_by_pos :
        \E entry \in PassEntries(TileBounds(ConvSubset(c_tile)),
                                 ConvSubset(c_tile), c_attributes_by_pos, array_pos) :
            LET after == ClusterPass(TileBounds(ConvSubset(c_tile)),
                                     ConvSubset(c_tile), c_attributes_by_pos,
                                     array_pos, entry, c_locals)
            IN  /\ c_attributes_by_pos' = after.attributes_by_pos
                /\ c_locals' = [indexes_to_add |-> after.indexes_to_add,
                                emitted |-> after.emitted,
                                explored |-> after.explored,
                                enqueued |-> after.enqueued,
                                passes |-> c_locals.passes + 1,
                                barren |-> IF entry = <<>>
                                           THEN c_locals.barren + 1
                                           ELSE c_locals.barren]
    /\ UNCHANGED <<pipe_vars, pos_vars, grow_vars, new_vars, select_vars, c_pc, c_shape,
                   c_raster, c_compact, c_tile, c_sweep, c_cluster, c_merged>>

\* the loop has ended: the collected cells go into the grouped indexes,
\* lines 361-375; the next tile follows
ConvFold ==
    /\ c_pc = "cluster"
    /\ DOMAIN c_attributes_by_pos = {}
    /\ c_cluster' = Append(c_cluster,
            [grouped_indexes |-> DrainInto(<<>>, c_locals.indexes_to_add, c_compact),
             emitted |-> c_locals.emitted,
             explored |-> c_locals.explored])
    /\ c_tile' = c_tile + 1
    /\ c_pc' = IF c_tile = Len(ConvTiles) THEN "merge" ELSE "sweep"
    /\ c_attributes_by_pos' = <<>>
    /\ c_locals' = <<>>
    /\ UNCHANGED <<pipe_vars, pos_vars, grow_vars, new_vars, select_vars, c_shape,
                   c_raster, c_compact, c_sweep, c_merged>>

\* the aggregator's merges of the partial results results[order[1]],
\* results[order[2]], .., lines 166-171
RECURSIVE MergeAll(_, _, _)
MergeAll(global, partials, order) ==
    IF order = <<>> THEN global
    ELSE MergeAll(MergeResult(global, partials[Head(order)].grouped_indexes),
                  partials, Tail(order))

\* the partial results reach the aggregator in some order; it merges them
\* and ends with the pass over the stacks, lines 166-187
ConvMerge ==
    /\ c_pc = "merge"
    /\ \E order \in {o \in [1..Len(ConvTiles) -> 1..Len(ConvTiles)] :
                        Range(o) = 1..Len(ConvTiles)} :
        c_merged' =
            [sweep |-> FinalizeResult(MergeAll(<<>>, c_sweep, order), c_compact),
             cluster |-> FinalizeResult(MergeAll(<<>>, c_cluster, order), c_compact)]
    /\ c_pc' = "done"
    /\ UNCHANGED <<pipe_vars, pos_vars, grow_vars, new_vars, select_vars, c_shape,
                   c_raster, c_compact, c_tile, c_attributes_by_pos, c_locals,
                   c_sweep, c_cluster>>

ConvNext == ConvSweep \/ ConvFilter \/ ConvCluster \/ ConvFold \/ ConvMerge

ConvSpec == ConvInit /\ [][ConvNext]_vars

(***************************************************************************)
(* RasterConverter::new, lines 49-84.                                      *)
(***************************************************************************)
\* the number of values of a u8: `as u8` keeps the low eight bits
U8Values == 256

MaxBand(inputs) ==
    IF inputs = <<>> THEN 0
    ELSE CHOOSE b \in Range(inputs) : \A c \in Range(inputs) : c <= b

\* the result of new(dataset, inputs, h3_resolution): "Ok" or the Error
RasterConverter_new(count, inputs, h3_resolution, projection, geotransform) ==
    LET required_max_band == MaxBand(inputs)
    IN  IF required_max_band > count % U8Values THEN "BandOutOfRange"
        ELSE IF projection = "other" THEN "InvalidSRS"
        ELSE IF h3_resolution > 15 THEN "H3ResolutionOutOfRange"
        ELSE IF geotransform = "missing" THEN "NoGeotransformFound"
        ELSE IF geotransform = "singular" THEN "GeotransformFailed"
        ELSE "Ok"

\* band counts around the limits of the check, source bands as u8
BandCounts == (0..3) \cup (254..258)
SourceBands == {0, 1, 2, 3, 255}

NewInit ==
    /\ PipeIdle
    /\ PosIdle
    /\ GrowIdle
    /\ SelectIdle
    /\ ConvIdle
    /\ n_pc = "call"
    /\ n_count \in BandCounts
    /\ n_inputs \in UNION {[1..n -> SourceBands] : n \in 0..MaxInputs}
    /\ n_h3_resolution \in {15, 16}
    /\ n_projection \in {"empty", "unparseable", "wgs84", "other"}
    /\ n_geotransform \in {"ok", "missing", "singular"}
    /\ n_result = "none"

NewCall ==
    /\ n_pc = "call"
    /\ n_result' = RasterConverter_new(n_count, n_inputs, n_h3_resolution,
                                       n_projection, n_geotransform)
    /\ n_pc' = "done"
    /\ UNCHANGED <<pipe_vars, pos_vars, grow_vars, select_vars, conv_vars, n_count, n_inputs, n_h3_resolution,
                   n_projection, n_geotransform>>

NewNext == NewCall

NewSpec == NewInit /\ [][NewNext]_vars

(***************************************************************************)
(* A worker chooses the algorithm for a subset, lines 139-155.             *)
(***************************************************************************)
\* max((area / hex_area).ceil() as usize, 1), the areas in whole units
n_h3indexes(area, hex_area) ==
    LET ceiled == (area + hex_area - 1) \div hex_area
    IN  IF ceiled > 1 THEN ceiled ELSE 1

n_pixels(tile_size) == tile_size[1] * tile_size[2]

\* mutant: the product is compared without the cast to usize
SelectAlgorithm_Uncast(area, hex_area, tile_size) ==
    IF 9 * n_h3indexes(area, hex_area) > 10 * n_pixels(tile_size)
    THEN "cluster" ELSE "sweep"

\* `(n_h3indexes as f64 * 0.9) as usize > n_pixels`: the cast drops the
\* fraction of the product
SelectAlgorithm(area, hex_area, tile_size) ==
    IF (9 * n_h3indexes(area, hex_area)) \div 10 > n_pixels(tile_size)
    THEN "cluster" ELSE "sweep"

SelectInit ==
    /\ PipeIdle
    /\ PosIdle
    /\ GrowIdle
    /\ NewIdle
    /\ ConvIdle
    /\ s_pc = "choose"
    /\ s_size \in (1..MaxWidth) \X (1..MaxHeight)
    /\ s_area \in 0..MaxArea
    /\ s_hex_area \in 1..MaxHexArea
    /\ s_mode = "none"

SelectCall ==
    /\ s_pc = "choose"
    /\ s_mode' = SelectAlgorithm(s_area, s_hex_area, s_size)
    /\ s_pc' = "done"
    /\ UNCHANGED <<pipe_vars, pos_vars, grow_vars, new_vars, conv_vars, s_size, s_area,
                   s_hex_area>>

SelectNext == SelectCall

SelectSpec == SelectInit /\ [][SelectNext]_vars

(***************************************************************************)
(* pixel_to_array_position and array_position_to_pixel applied one after   *)
(* the other, lines 219-227.                                               *)
(***************************************************************************)
PosInit ==
    /\ PipeIdle
    /\ GrowIdle
    /\ NewIdle
    /\ SelectIdle
    /\ ConvIdle
    /\ p_pc = "call"
    /\ p_size \in (1..MaxWidth) \X (1..MaxHeight)
    /\ p_pixel \in (0..(p_size[1] - 1)) \X (0..(p_size[2] - 1))
    /\ p_pos \in 0..(p_size[1] * p_size[2] - 1)
    /\ p_pixel_back = <<>>
    /\ p_pos_back = 0

PosCall ==
    /\ p_pc = "call"
    /\ p_pixel_back' = array_position_to_pixel(
                            pixel_to_array_position(p_pixel, p_size), p_size)
    /\ p_pos_back' = pixel_to_array_position(
                            array_position_to_pixel(p_pos, p_size), p_size)
    /\ p_pc' = "done"
    /\ UNCHANGED <<pipe_vars, grow_vars, new_vars, select_vars, conv_vars,
                   p_size, p_pixel, p_pos>>

PosNext == PosCall

PosSpec == PosInit /\ [][PosNext]_vars

(***************************************************************************)
(* Properties of the pipeline.                                             *)
(***************************************************************************)
Count(seq, x) == Cardinality({i \in 1..Len(seq) : seq[i] = x})

\* the positions of agg_log that hold an event of the given kind
LogEvents(kind) == {i \in 1..Len(agg_log) : agg_log[i][1] = kind}

\* the ConversionSubsets alive: held by the reader, queued, held by a worker
SubsetsAlive ==
    (IF reader_pc = "send" THEN 1 ELSE 0)
    + Len(jobs)
    + Cardinality({w \in Workers : worker_pc[w] = "convert"})

\* where tile t is: queued, held by a worker as subset or as partial
\* result, queued as partial result, or merged
Places(t) ==
    Count(jobs, t)
    + Cardinality({w \in Workers : worker_subset[w] = t})
    + Cardinality({w \in Workers :
            worker_pc[w] = "send" /\ worker_result[w].tile = t})
    + Cardinality({i \in 1..Len(results) : results[i].tile = t})
    + merged_count[t]

AllExited ==
    /\ \A w \in Workers : worker_pc[w] = "exit"
    /\ agg_pc = "exit"

\* C1: for every tile list and every worker count N >= 1, a run in which
\* no thread fails completes under fair scheduling: the reader enqueues
\* every tile, every worker and the aggregator exit, the caller receives
\* the final result; and while the call runs some thread can take a step
C1_RunsToCompletion ==
    /\ <>(/\ next_tile = tiles_total + 1
          /\ \A t \in Tiles : recv_count[t] = 1
          /\ AllExited
          /\ reader_pc = "done"
          /\ outcome = "Ok")
    /\ [](outcome = "running" => ENABLED Next)

C1_Witness ==
    /\ outcome = "Ok"
    /\ reader_pc = "done"
    /\ AllExited
    /\ num_threads = 2
    /\ tiles_total = 3

\* C2: a worker leaves its receive loop only after the reader dropped
\* send_subset and the jobs queue is empty; the aggregator leaves its loop
\* and finalizes only after every worker has ended and the results queue is
\* empty; the final result is never published twice and is published once
\* in every run in which the aggregator exits; the call ends only after
\* every worker and the aggregator have ended, also when a thread failed
C2_CloseCascade ==
    /\ \A w \in Workers :
            worker_pc[w] = "exit" => (~send_subset_alive /\ jobs = <<>>)
    /\ agg_pc \in {"compact", "send_final", "exit"} =>
            (LiveWorkers = {} /\ results = <<>>)
    /\ final_sent <= 1
    /\ agg_pc = "exit" => final_sent = 1
    /\ Cardinality(LogEvents("publish")) = final_sent
    /\ outcome # "running" => (LiveWorkers = {} /\ ~AggAlive)
    /\ outcome = "Ok" => (AllExited /\ final_sent = 1)

C2_Witness ==
    /\ outcome = "ConversionFailed"
    /\ final_sent = 1
    /\ \E w \in Workers : worker_pc[w] = "exit"
    /\ \E w \in Workers : worker_pc[w] = "panicked"

\* C3: in a run without failure every tile is received by one worker, one
\* partial result is sent for it and one is merged; a tile the reader has
\* enqueued is at exactly one place, and at return as many partial results
\* are merged as there are tiles
C3_ExactlyOnce ==
    /\ \A t \in Tiles :
        /\ recv_count[t] <= 1
        /\ sent_count[t] <= recv_count[t]
        /\ merged_count[t] <= sent_count[t]
        /\ Places(t) = (IF t < next_tile THEN 1 ELSE 0)
    /\ outcome = "Ok" =>
        /\ \A t \in Tiles :
            recv_count[t] = 1 /\ sent_count[t] = 1 /\ merged_count[t] = 1
        /\ Cardinality(LogEvents("merge")) = tiles_total

C3_Witness ==
    /\ outcome = "Ok"
    /\ num_threads = 2
    /\ tiles_total = 3
    /\ agg_log[1] = <<"merge", 2>>

\* the keys and the cells of the per-tile results of the run
AllKeys == UNION {DOMAIN ConvertSubset(t, compact) : t \in Tiles}
UnionCells(k) ==
    UNION {Range(ConvertSubset(t, compact)[k]) :
            t \in {u \in Tiles : k \in DOMAIN ConvertSubset(u, compact)}}

\* C4 (as amended): the result, as a set of cells per key, is the same for
\* every worker count and every interleaving: the per-key union of the
\* per-tile results when compact is not set, the compaction of that union
\* when it is
C4_OrderIndependent ==
    outcome = "Ok" =>
        /\ DOMAIN returned = AllKeys
        /\ \A k \in AllKeys :
            Range(returned[k]) =
                IF compact THEN CompactSet(UnionCells(k)) ELSE UnionCells(k)

C4_Witness ==
    /\ outcome = "Ok"
    /\ num_threads = 2
    /\ tiles_total = 3
    /\ agg_log[1] = <<"merge", 2>>
    /\ agg_log[2] = <<"merge", 1>>
    /\ DOMAIN returned = {<<1>>, <<2>>}

\* C4 as stated: the result is the per-key union of the per-tile results
C4_UnionOfTileResults ==
    outcome = "Ok" =>
        /\ DOMAIN returned = AllKeys
        /\ \A k \in AllKeys : Range(returned[k]) = UnionCells(k)

\* C5: the jobs queue and the results queue hold at most num_threads
\* entries, and at most 2 * num_threads + 1 subsets are alive at once,
\* however many tiles there are
C5_BoundedInFlight ==
    /\ Len(jobs) <= num_threads
    /\ Len(results) <= num_threads
    /\ SubsetsAlive <= 2 * num_threads + 1

C5_Witness ==
    /\ tiles_total > 2 * num_threads + 1
    /\ reader_pc = "send"
    /\ Len(jobs) = num_threads
    /\ SubsetsAlive = 2 * num_threads + 1

\* what merging the partial results of agg_log, in its order and without
\* compaction, leaves in the stack of key k
RECURSIVE ConcatMerged(_, _)
ConcatMerged(log, k) ==
    IF log = <<>> THEN <<>>
    ELSE LET e == Head(log)
             piece == IF e[1] = "merge"
                      THEN LET gi == ConvertSubset(e[2], compact)
                           IN  IF k \in DOMAIN gi THEN gi[k] ELSE <<>>
                      ELSE <<>>
         IN  piece \o ConcatMerged(Tail(log), k)

\* C6: every merge is without compaction; the aggregator compacts only
\* after the last partial result is merged and before it publishes: each
\* stack once when compact is set, never when it is not
C6_CompactOnceAtEnd ==
    /\ \A k \in DOMAIN grouped_indexes :
            grouped_indexes[k] =
                IF compact /\ agg_pc \in {"send_final", "exit"}
                THEN StackCompact(ConcatMerged(agg_log, k))
                ELSE ConcatMerged(agg_log, k)
    /\ \A i \in LogEvents("compact") :
        /\ \A j \in LogEvents("merge") : j < i
        /\ \A j \in LogEvents("publish") : i < j
        /\ Cardinality(LogEvents("merge")) = tiles_total
    /\ ~compact => LogEvents("compact") = {}
    /\ (compact /\ agg_pc \in {"send_final", "exit"}) =>
            \A k \in DOMAIN grouped_indexes :
                Cardinality({i \in LogEvents("compact") : agg_log[i][2] = k}) = 1
    /\ final # <<>> => Head(final) = grouped_indexes

C6_Witness ==
    /\ compact
    /\ final_sent = 1
    /\ tiles_total = 3
    /\ grouped_indexes = (<<1>> :> <<1>>) @@ (<<2>> :> <<15, 16>>)

\* C7: with a progress sink one message is sent per merged tile, after
\* its merge; the i-th message has tiles_done = i and tiles_total = the
\* number of tiles; all tiles_total messages are sent before the final
\* result is published
C7_ProgressMessages ==
    /\ ~has_progress => (progress_log = <<>> /\ tiles_done = 0)
    /\ has_progress =>
        /\ Len(progress_log) + (IF agg_pc = "progress" THEN 1 ELSE 0)
                = Cardinality(LogEvents("merge"))
        /\ \A i \in 1..Len(progress_log) :
                progress_log[i] = [tiles_total |-> tiles_total, tiles_done |-> i]
        /\ final_sent = 1 => Len(progress_log) = tiles_total

C7_Witness ==
    /\ has_progress
    /\ final_sent = 1
    /\ tiles_total = 3
    /\ Len(progress_log) = 3
    /\ progress_log[3].tiles_done = 3

\* C8 as stated: when a worker or the aggregator has panicked (and no
\* raster read failed), the call ends, after joining every thread, by
\* returning Error::ConversionFailed
C8_ReturnsConversionFailed ==
    (/\ outcome # "running"
     /\ ~read_failed
     /\ (agg_pc = "panicked" \/ \E w \in Workers : worker_pc[w] = "panicked"))
    => (outcome = "ConversionFailed" /\ LiveWorkers = {} /\ ~AggAlive)

\* C9 as stated: after a failed raster read the reader enqueues no further
\* tile, the workers drain the queue and end, and the call ends by
\* returning the read error
C9_ReadErrorSurfaces ==
    /\ read_failed => reader_pc \in {"unwind", "unwind_jobs", "panicked"}
    /\ (read_failed /\ outcome # "running") =>
            (jobs = <<>> /\ LiveWorkers = {} /\ outcome = "RasterReadError")

(***************************************************************************)
(* Properties of the region grower.                                        *)
(***************************************************************************)
\* positions p and q of the tile differ by at most 1 in column and in row
Adjacent8(p, q, tile_size) ==
    /\ ((p % tile_size[1]) - (q % tile_size[1])) \in -1..1
    /\ ((p \div tile_size[1]) - (q \div tile_size[1])) \in -1..1

RECURSIVE Reach8(_, _, _)
Reach8(keys, tile_size, found) ==
    LET more == {q \in keys \ found : \E p \in found : Adjacent8(p, q, tile_size)}
    IN  IF more = {} THEN found ELSE Reach8(keys, tile_size, found \cup more)

\* the 8-connected component of an occupied seed
Component8(keys, seed, tile_size) == Reach8(keys, tile_size, {seed})

\* C10 as stated: for an occupied seed the returned cluster is the
\* 8-connected component of the seed
C10_ExactComponent ==
    (g_pc = "done" /\ g_start \in g_map) =>
        g_result = Component8(g_map, g_start, g_size)

\* C11 as stated: the grower never steps over a tile edge: every position
\* it enqueues is an array position of the tile, in 0 .. width * height - 1,
\* and a grid neighbour of the popped position (no neighbour in column -1
\* or column width, in row -1 or row height, no wrap-around to another row)
C11_StaysInsideTile ==
    g_pc = "done" =>
        \A e \in g_enqueued :
            /\ e[2] \in 0..(g_size[1] * g_size[2] - 1)
            /\ Adjacent8(e[1], e[2], g_size)

\* C12: every position the grower returns is a key of the occupied map,
\* an occupied seed is in its own cluster, and an unoccupied seed gives
\* the empty cluster
C12_ClusterOfOccupied ==
    g_pc = "done" =>
        /\ g_result \subseteq g_map
        /\ g_start \in g_map => g_start \in g_result
        /\ g_start \notin g_map => g_result = {}

\* a call with an unoccupied seed next to occupied positions has returned
C12_Witness ==
    /\ g_pc = "done"
    /\ g_start \notin g_map
    /\ Cardinality(g_map) = 3
    /\ \E e \in g_map : Adjacent8(g_start, e, g_size)
    /\ g_result = {}

(***************************************************************************)
(* Properties of RasterConverter::new.                                     *)
(***************************************************************************)
\* C19 as stated: new returns BandOutOfRange exactly when some declared
\* source band index is greater than the dataset's band count, for every
\* band count, counts above 255 included
C19_BandOutOfRangeIff ==
    n_pc = "done" =>
        ((n_result = "BandOutOfRange")
            <=> (\E i \in 1..Len(n_inputs) : n_inputs[i] > n_count))

(***************************************************************************)
(* Properties of the choice of the algorithm.                              *)
(***************************************************************************)
\* H and P of the subset the worker has chosen for
SelectedH == n_h3indexes(s_area, s_hex_area)
SelectedP == n_pixels(s_size)

ConvDone == 1..Len(c_cluster)

\* the values of all bands of the raster's pixel (column, row); no value
\* outside the raster
RasterAt(pixel) ==
    IF /\ pixel[1] \in 0..(c_shape.raster[1] - 1)
       /\ pixel[2] \in 0..(c_shape.raster[2] - 1)
    THEN c_raster[pixel[2] * c_shape.raster[1] + pixel[1] + 1]
    ELSE NoValue

\* the pixel of the raster that holds the center of the cell
CenterPixel(h3index) == coordinate_to_pixel(coordinate(h3index), c_shape.scale)

HasValue(attributes) == \E b \in 1..Len(attributes) : is_some(attributes[b])

\* C13: no cell is emitted under an attribute vector that is all no-data:
\* every key of a tile's partial result, of cluster mode's buckets and of
\* the merged result, in cluster mode and in sweep mode, holds a value
C13_NoAllNoDataKey ==
    /\ \A t \in 1..Len(c_sweep) :
            /\ \A k \in DOMAIN c_sweep[t].grouped_indexes : HasValue(k)
            /\ \A e \in c_sweep[t].emitted : HasValue(e[1])
    /\ \A t \in 1..Len(c_cluster) :
            /\ \A k \in DOMAIN c_cluster[t].grouped_indexes : HasValue(k)
            /\ \A e \in c_cluster[t].emitted : HasValue(e[1])
    /\ c_pc = "cluster" =>
            /\ \A k \in DOMAIN c_locals.indexes_to_add : HasValue(k)
            /\ \A pos \in DOMAIN c_attributes_by_pos :
                    HasValue(c_attributes_by_pos[pos])
    /\ c_pc = "done" =>
            /\ \A k \in DOMAIN c_merged.sweep : HasValue(k)
            /\ \A k \in DOMAIN c_merged.cluster : HasValue(k)

\* the results are merged; both modes emitted cells, and both came in a
\* tile across a cell whose pixel holds no data
C13_Witness ==
    /\ c_pc = "done"
    /\ DOMAIN c_merged.sweep # {}
    /\ DOMAIN c_merged.cluster # {}
    /\ \E t \in ConvDone :
            /\ c_cluster[t].emitted # {}
            /\ \E h \in c_sweep[t].explored :
                    /\ RasterAt(CenterPixel(h)) = NoValue
                    /\ \E e \in c_cluster[t].emitted : h \in Range(k_ring(e[2]))

\* C14 as stated: every emitted pair (attributes, cell) carries the values
\* the bands hold for the pixel that contains the cell's center: no cell
\* is filed under the attributes of a different pixel, in either mode
C14_AttributesOfCenterPixel ==
    \A t \in ConvDone :
        /\ \A e \in c_sweep[t].emitted : e[1] = RasterAt(CenterPixel(e[2]))
        /\ \A e \in c_cluster[t].emitted : e[1] = RasterAt(CenterPixel(e[2]))

\* the point c lies in the geographic bounds of tile t, edges included
InsideTile(t, c) ==
    LET tile == ConvTiles[t]
    IN  /\ tile.offset_origin[1] * c_shape.scale <= c[1]
        /\ c[1] <= (tile.offset_origin[1] + tile.size[1]) * c_shape.scale
        /\ tile.offset_origin[2] * c_shape.scale <= c[2]
        /\ c[2] <= (tile.offset_origin[2] + tile.size[2]) * c_shape.scale

\* C15: every cell a tile emits has its center inside the tile's
\* geographic bounds, and the neighbours of a cell are explored only from
\* a cell whose center is inside them, in either mode
C15_CenterInsideBounds ==
    /\ \A t \in 1..Len(c_sweep) :
            /\ \A e \in c_sweep[t].emitted : InsideTile(t, coordinate(e[2]))
            /\ \A h \in c_sweep[t].explored : InsideTile(t, coordinate(h))
    /\ \A t \in 1..Len(c_cluster) :
            /\ \A e \in c_cluster[t].emitted : InsideTile(t, coordinate(e[2]))
            /\ \A h \in c_cluster[t].explored : InsideTile(t, coordinate(h))
    /\ c_pc = "cluster" =>
            /\ \A e \in c_locals.emitted : InsideTile(c_tile, coordinate(e[2]))
            /\ \A h \in c_locals.explored : InsideTile(c_tile, coordinate(h))

\* in a tile both modes explored a cell that has a neighbour outside the
\* tile's bounds, in a pixel that holds a value: the neighbour was
\* discarded by the tile, neither emitted nor explored
C15_Witness ==
    \E t \in ConvDone :
        \E h \in c_sweep[t].explored \cap c_cluster[t].explored :
            \E n \in Range(k_ring(h)) :
                /\ ~InsideTile(t, coordinate(n))
                /\ HasValue(RasterAt(CenterPixel(n)))
                /\ n \notin c_sweep[t].explored \cup c_cluster[t].explored
                /\ \A e \in c_sweep[t].emitted \cup c_cluster[t].emitted : e[2] # n

\* the cells of a partial result's history
CellsOf(emitted) == {e[2] : e \in emitted}

\* how often the cell occurs in the stacks of a GroupedH3Indexes
Occurrences(grouped, h3index) ==
    Cardinality({<<k, i>> \in UNION {{k} \X DOMAIN grouped[k] : k \in DOMAIN grouped} :
                    grouped[k][i] = h3index})

\* C16 as stated: the tiles are disjoint and no cell is emitted by more
\* than one tile; after the merge of all partial results every cell occurs
\* at most once in the global result, cells with their center on the
\* boundary of two adjacent tiles included
C16_NoCellInTwoTiles ==
    c_pc = "done" =>
        /\ \A t1, t2 \in ConvDone :
                t1 # t2 =>
                    /\ CellsOf(c_sweep[t1].emitted) \cap CellsOf(c_sweep[t2].emitted) = {}
                    /\ CellsOf(c_cluster[t1].emitted) \cap CellsOf(c_cluster[t2].emitted) = {}
        /\ \A t \in ConvDone :
                \A e \in c_sweep[t].emitted \cup c_cluster[t].emitted :
                    /\ Occurrences(c_merged.sweep, e[2]) <= 1
                    /\ Occurrences(c_merged.cluster, e[2]) <= 1

\* the cells of a GroupedH3Indexes under the key k, none without the key
CellsUnder(grouped, k) ==
    IF k \in DOMAIN grouped THEN Range(grouped[k]) ELSE {}

\* C17 as stated: for every ConversionSubset cluster mode and sweep mode,
\* run on the same subset, give the same keys and under every key the
\* same set of cells
C17_ModesAgree ==
    \A t \in ConvDone :
        /\ DOMAIN c_cluster[t].grouped_indexes = DOMAIN c_sweep[t].grouped_indexes
        /\ \A k \in DOMAIN c_sweep[t].grouped_indexes :
                CellsUnder(c_cluster[t].grouped_indexes, k)
                    = CellsUnder(c_sweep[t].grouped_indexes, k)

\* the first cell of the target resolution: smaller cells are parents
FirstTargetCell == H3Index(-7, -1)

\* a set of cells with every parent replaced by its children
RECURSIVE Uncompact(_)
Uncompact(S) ==
    IF \E c \in S : c < FirstTargetCell
    THEN LET c == CHOOSE x \in S : x < FirstTargetCell
         IN  Uncompact((S \ {c}) \cup Children(c))
    ELSE S

\* the cells the tiles emitted under the key k, at the target resolution
EmittedUnder(partials, k) ==
    UNION {{e[2] : e \in {x \in partials[t].emitted : x[1] = k}} :
            t \in 1..Len(partials)}

EmittedKeys(partials) ==
    UNION {{e[1] : e \in partials[t].emitted} : t \in 1..Len(partials)}

\* the merged result of one mode against the cells its tiles emitted
CompactionOf(merged, partials) ==
    /\ DOMAIN merged = EmittedKeys(partials)
    /\ \A k \in DOMAIN merged :
            /\ Uncompact(Range(merged[k])) = EmittedUnder(partials, k)
            /\ c_compact => Range(merged[k]) = CompactSet(EmittedUnder(partials, k))
            /\ ~c_compact => Range(merged[k]) = EmittedUnder(partials, k)

\* C18: compaction does not change coverage: the keys of the result are
\* the keys cells were emitted under; with compact = false every stack
\* holds the emitted cells, with compact = true their hierarchical
\* compaction, and expanding it to the target resolution gives the
\* emitted cells again, in either mode
C18_CompactionKeepsCoverage ==
    c_pc = "done" =>
        /\ CompactionOf(c_merged.sweep, c_sweep)
        /\ CompactionOf(c_merged.cluster, c_cluster)

\* with compact = true both modes end with a stack that holds a parent in
\* place of seven cells the tiles emitted
C18_Witness ==
    /\ c_pc = "done"
    /\ c_compact
    /\ \E k \in DOMAIN c_merged.sweep :
            \E c \in Range(c_merged.sweep[k]) :
                /\ c < FirstTargetCell
                /\ Children(c) \subseteq EmittedUnder(c_sweep, k)
    /\ \E k \in DOMAIN c_merged.cluster :
            \E c \in Range(c_merged.cluster[k]) :
                /\ c < FirstTargetCell
                /\ Children(c) \subseteq EmittedUnder(c_cluster, k)

\* the entries of the stacks of a GroupedH3Indexes that hold the cell,
\* itself or in a parent
Covering(grouped, h3index) ==
    {<<k, i>> \in UNION {{k} \X DOMAIN grouped[k] : k \in DOMAIN grouped} :
        h3index \in Uncompact({grouped[k][i]})}

\* C22: in sweep mode a bucket that exceeds FlushLimit cells is flushed
\* into its key's stack and cleared, and the remaining buckets are flushed
\* at the end of the tile: no bucket ever holds more than FlushLimit + 1
\* cells, and every cell pushed into a bucket is in the tile's result
\* exactly once, under the key of its bucket
C22_BucketsFlushedOnce ==
    \A t \in 1..Len(c_sweep) :
        /\ c_sweep[t].largest <= FlushLimit + 1
        /\ \A e \in c_sweep[t].emitted :
                /\ Cardinality(Covering(c_sweep[t].grouped_indexes, e[2])) = 1
                /\ \A x \in Covering(c_sweep[t].grouped_indexes, e[2]) : x[1] = e[1]

\* a tile whose cells are kept as they are: a bucket was flushed early,
\* more than once, and cells pushed after the last early flush were left
\* for the flush at the end of the tile
C22_Witness ==
    /\ ~c_compact
    /\ \E t \in 1..Len(c_sweep) :
            /\ c_sweep[t].flushes >= 2
            /\ c_sweep[t].largest = FlushLimit + 1
            /\ DOMAIN c_sweep[t].grouped_indexes = {<<<<1>>, None>>}
            /\ Cardinality(c_sweep[t].emitted)
                    > c_sweep[t].flushes * (FlushLimit + 1)

\* the cell sweep mode starts from in tile t: the cell at the tile's
\* center pixel
SeedCell(t) ==
    from_coordinate(pixel_to_coordinate(center_pixel(ConvTiles[t]), c_shape.scale))

\* S with every cell that a chain of neighbours with their centers inside
\* the bounds of tile t links to a cell of S
RECURSIVE HexReach(_, _)
HexReach(t, S) ==
    LET more == {n \in UNION {Range(k_ring(h)) : h \in S} :
                    InsideTile(t, coordinate(n))} \ S
    IN  IF more = {} THEN S ELSE HexReach(t, S \cup more)

\* the cells reachable from the seed of tile t inside the tile's bounds
Reachable(t) ==
    IF InsideTile(t, coordinate(SeedCell(t))) THEN HexReach(t, {SeedCell(t)})
    ELSE {}

\* C23 as stated: sweep mode explores across no-data: the neighbours of
\* a dequeued cell inside the bounds are enqueued whether or not the cell
\* holds a value, so the walk emits every cell that is reachable from the
\* seed through cells with their centers inside the tile's bounds and
\* whose center pixel holds a value; every cell is enqueued at most once
\* and the neighbours of a cell outside the bounds are not enumerated
C23_SweepCrossesNoData ==
    \A t \in 1..Len(c_sweep) :
        /\ \A h \in c_sweep[t].explored :
                Range(k_ring(h)) \subseteq Range(c_sweep[t].enqueued)
        /\ \A h \in Reachable(t) :
                HasValue(RasterAt(CenterPixel(h)))
                    => h \in CellsOf(c_sweep[t].emitted)
        /\ Cardinality(Range(c_sweep[t].enqueued)) = Len(c_sweep[t].enqueued)
        /\ \A h \in c_sweep[t].explored : InsideTile(t, coordinate(h))

\* the positions a step takes out of cluster mode's map
Retired == DOMAIN c_attributes_by_pos \ DOMAIN c_attributes_by_pos'

\* C24: the outer loop of cluster mode ends for every tile: every pass
\* retires from the map the whole cluster grown from a seed of the map,
\* the seed included, whether or not an entry cell was found, so the map
\* shrinks with every pass and the passes of a tile are at most as many
\* as the positions the map started with; a pass that finds no entry
\* cell adds no cell to the result
C24_ClusterLoopEnds ==
    [][(c_pc = "cluster" /\ c_pc' = "cluster") =>
        /\ c_locals'.passes = c_locals.passes + 1
        /\ Retired # {}
        /\ DOMAIN c_attributes_by_pos' \subseteq DOMAIN c_attributes_by_pos
        /\ c_locals'.passes + Cardinality(DOMAIN c_attributes_by_pos')
                <= Cardinality(DOMAIN AttributesByPos(ConvSubset(c_tile).banddata))
        /\ \E seed \in Retired :
                Retired = grow_region_starting_with_index(
                              DOMAIN c_attributes_by_pos, seed,
                              ConvTiles[c_tile].size)
        /\ ClusterEntries(TileBounds(ConvSubset(c_tile)), ConvSubset(c_tile),
                          Retired) = {}
                => /\ c_locals'.indexes_to_add = c_locals.indexes_to_add
                   /\ c_locals'.emitted = c_locals.emitted]_vars

\* the loop of a tile has ended: its passes found no entry cell, the map
\* is empty and no cell was added, while the passes of an earlier tile
\* found entry cells and added cells
C24_Witness ==
    /\ c_pc = "cluster"
    /\ DOMAIN c_attributes_by_pos = {}
    /\ c_locals.passes >= 1
    /\ c_locals.barren = c_locals.passes
    /\ c_locals.emitted = {}
    /\ \E t \in 1..Len(c_cluster) : c_cluster[t].emitted # {}

\* no element of the sequence occurs in it twice
NoRepeat(seq) == Cardinality(Range(seq)) = Len(seq)

\* no cell is in the history under two attribute vectors
OneKey(emitted) == \A e1, e2 \in emitted : e1[2] = e2[2] => e1[1] = e2[1]

\* C25: within the result of one tile no cell is emitted twice, in either
\* mode: sweep mode enqueues and dequeues every cell at most once; a pass
\* of cluster mode enqueues every cell at most once, and no cell is added
\* by two passes or under two attribute vectors; every emitted cell is in
\* one entry of one stack of the tile's result, itself or under a parent
C25_NoCellTwiceInTile ==
    /\ \A t \in 1..Len(c_sweep) :
            /\ NoRepeat(c_sweep[t].enqueued)
            /\ NoRepeat(c_sweep[t].dequeued)
            /\ OneKey(c_sweep[t].emitted)
            /\ \A e \in c_sweep[t].emitted :
                    Cardinality(Covering(c_sweep[t].grouped_indexes, e[2])) = 1
    /\ c_pc = "cluster" =>
            /\ NoRepeat(c_locals.enqueued)
            /\ OneKey(c_locals.emitted)
            /\ \A e \in c_locals.emitted :
                    Occurrences(c_locals.indexes_to_add, e[2]) = 1
    /\ \A t \in 1..Len(c_cluster) :
            /\ OneKey(c_cluster[t].emitted)
            /\ \A e \in c_cluster[t].emitted :
                    Cardinality(Covering(c_cluster[t].grouped_indexes, e[2])) = 1

\* a tile is converted whose cells are kept as they are: cluster mode
\* added cells in two passes, for two clusters with different attribute
\* vectors, and sweep mode emitted cells under both vectors too
C25_Witness ==
    /\ ~c_compact
    /\ c_pc = "cluster"
    /\ c_locals.passes = 2
    /\ c_locals.barren = 0
    /\ Cardinality(DOMAIN c_locals.indexes_to_add) = 2
    /\ Cardinality(DOMAIN c_sweep[c_tile].grouped_indexes) = 2

(***************************************************************************)
(* Properties of the pixel and array position helpers.                     *)
(***************************************************************************)
\* C21 as stated: array_position_to_pixel is the inverse of
\* pixel_to_array_position: for every pixel (col, row) with col < width
\* the way to the array position and back gives (col, row), and for every
\* position the way to the pixel and back gives the position
C21_RoundTrip ==
    p_pc = "done" =>
        /\ p_pixel_back = p_pixel
        /\ p_pos_back = p_pos

(***************************************************************************)
(* Properties of the pipeline without workers.                             *)
(***************************************************************************)
\* no subset was queued, received or converted and no result was merged
NothingConverted ==
    /\ jobs = <<>>
    /\ results = <<>>
    /\ next_tile = 1
    /\ \A t \in Tiles : recv_count[t] = 0 /\ sent_count[t] = 0 /\ merged_count[t] = 0
    /\ tiles_done = 0
    /\ grouped_indexes = <<>>

\* C26: with num_threads = 0 convert_tiles never blocks forever: the
\* aggregator finds the results queue closed at once; for an empty tile
\* list the call returns the empty result; for a non-empty tile list the
\* reader's first send fails because the jobs queue has no Receiver, no
\* tile is converted and the call ends in a failure
C26_NoWorkersNoHang ==
    /\ <>(outcome # "running")
    /\ [](/\ num_threads = 0
          /\ NothingConverted
          /\ agg_pc = "recv" => (results = <<>> /\ LiveWorkers = {})
          /\ reader_pc # "send" \/ LiveWorkers = {}
          /\ (reader_pc = "panicked" /\ ~read_failed) => tiles_total > 0
          /\ outcome # "running" =>
                IF tiles_total = 0
                THEN /\ outcome = "Ok"
                     /\ reader_pc = "done"
                     /\ returned = <<>>
                     /\ final_sent = 1
                ELSE /\ outcome \in {"panic", "ConversionFailed"}
                     /\ reader_pc = "panicked")

\* the call has ended in a failure: the tile list was not empty, the
\* raster was read and the send of the first subset failed
C26_Witness ==
    /\ num_threads = 0
    /\ tiles_total > 0
    /\ ~read_failed
    /\ reader_pc = "panicked"
    /\ outcome = "panic"

====
